---- MODULE Spec2Model ----
(***************************************************************************)
(* Model of src/main.rs: a ledger of per-client transaction histories      *)
(* (Accounts, Account) and the replay that folds one history into a        *)
(* ClosingBalance (Account::closing_balance).                              *)
(*                                                                         *)
(* Amounts and balances are Rust u64 values.  They are kept at full width  *)
(* as four 16-bit limbs, least significant first, so that the arithmetic   *)
(* of the replay overflows exactly where the program's does.               *)
(***************************************************************************)
EXTENDS Integers, Sequences, FiniteSets, TLC

VARIABLES
    accounts,           \* Accounts.accounts: client id -> Account
    recorded,           \* the stream of transactions fed to add_transaction so far
    overflow_checks,    \* build profile: TRUE panics on u64 overflow, FALSE wraps
    closing_balances    \* what the generate_closing_balances call produced

vars == <<accounts, recorded, overflow_checks, closing_balances>>

(***************************************************************************)
(* Bounds of the model.                                                    *)
(***************************************************************************)
MaxTx == 3

MaxLongHistory == 4

Clients == {1, 2}

TxIds == {1, 2}

(***************************************************************************)
(* u64 values.                                                             *)
(***************************************************************************)
Base == 2^16

U64 == [1..4 -> 0..(Base - 1)]

U64Zero == <<0, 0, 0, 0>>

U64One == <<1, 0, 0, 0>>

U64Top == <<0, 0, 0, 2^15>>

\* a + b on u64: the wrapped value and whether the exact sum left the range
overflowing_add(a, b) ==
    LET s1 == a[1] + b[1]
        s2 == a[2] + b[2] + (s1 \div Base)
        s3 == a[3] + b[3] + (s2 \div Base)
        s4 == a[4] + b[4] + (s3 \div Base)
    IN  [value    |-> <<s1 % Base, s2 % Base, s3 % Base, s4 % Base>>,
         overflow |-> s4 >= Base]

\* a - b on u64: the wrapped value and whether the exact difference is below 0
overflowing_sub(a, b) ==
    LET d1 == a[1] - b[1]
        d2 == a[2] - b[2] - (IF d1 < 0 THEN 1 ELSE 0)
        d3 == a[3] - b[3] - (IF d2 < 0 THEN 1 ELSE 0)
        d4 == a[4] - b[4] - (IF d3 < 0 THEN 1 ELSE 0)
    IN  [value    |-> <<d1 % Base, d2 % Base, d3 % Base, d4 % Base>>,
         overflow |-> d4 < 0]

\* a < b on u64
U64Lt(a, b) ==
    \/ a[4] < b[4]
    \/ a[4] = b[4] /\ a[3] < b[3]
    \/ a[4] = b[4] /\ a[3] = b[3] /\ a[2] < b[2]
    \/ a[4] = b[4] /\ a[3] = b[3] /\ a[2] = b[2] /\ a[1] < b[1]

\* a <= b on u64
U64Le(a, b) == a = b \/ U64Lt(a, b)

(***************************************************************************)
(* Transactions.                                                           *)
(***************************************************************************)
Amounts == {U64One, U64Top}

TransactionType ==
    [tag : {"Deposit", "Withdrawal"}, amount : Amounts]
        \cup [tag : {"Dispute", "Resolve", "Chargeback"}]

Transaction ==
    [tx_type : TransactionType, client_id : Clients, transaction_id : TxIds]

Deposit(c, t, a) ==
    [tx_type |-> [tag |-> "Deposit", amount |-> a], client_id |-> c, transaction_id |-> t]

Withdrawal(c, t, a) ==
    [tx_type |-> [tag |-> "Withdrawal", amount |-> a], client_id |-> c, transaction_id |-> t]

Dispute(c, t) ==
    [tx_type |-> [tag |-> "Dispute"], client_id |-> c, transaction_id |-> t]

Resolve(c, t) ==
    [tx_type |-> [tag |-> "Resolve"], client_id |-> c, transaction_id |-> t]

Chargeback(c, t) ==
    [tx_type |-> [tag |-> "Chargeback"], client_id |-> c, transaction_id |-> t]

(***************************************************************************)
(* Account.                                                                *)
(***************************************************************************)
None == [some |-> FALSE]

Some(x) == [some |-> TRUE, value |-> x]

\* an add_transaction that puts the transaction in front
Account_add_transaction_AtFront(account, tx) ==
    [account EXCEPT !.transactions = <<tx>> \o @]

\* Account::add_transaction: push at the end
Account_add_transaction(account, tx) ==
    [account EXCEPT !.transactions = Append(@, tx)]

\* a lookup that skips the records that are not Deposits or Withdrawals
get_disputed_transaction_FundingOnly(account, tx_id) ==
    LET hits == {i \in 1..Len(account.transactions) :
                    /\ account.transactions[i].transaction_id = tx_id
                    /\ account.transactions[i].tx_type.tag \in {"Deposit", "Withdrawal"}}
    IN  IF hits = {} THEN None
        ELSE Some(account.transactions[CHOOSE i \in hits : \A j \in hits : i <= j])

\* a lookup that gives the last stored record with that id
get_disputed_transaction_Latest(account, tx_id) ==
    LET hits == {i \in 1..Len(account.transactions) :
                    account.transactions[i].transaction_id = tx_id}
    IN  IF hits = {} THEN None
        ELSE Some(account.transactions[CHOOSE i \in hits : \A j \in hits : j <= i])

\* Account::get_disputed_transaction: the first stored record with that id,
\* whatever its kind
get_disputed_transaction(account, tx_id) ==
    LET hits == {i \in 1..Len(account.transactions) :
                    account.transactions[i].transaction_id = tx_id}
    IN  IF hits = {} THEN None
        ELSE Some(account.transactions[CHOOSE i \in hits : \A j \in hits : i <= j])

(***************************************************************************)
(* Account::closing_balance.  The running values of the loop are held,     *)
(* available and locked; panicked records that an arithmetic overflow      *)
(* check aborted the replay (the running values are then lost).  `checks`  *)
(* says whether the build checks u64 arithmetic for overflow: `+=` and     *)
(* `-=` panic when it does and wrap when it does not.                      *)
(***************************************************************************)
Start == [held |-> U64Zero, available |-> U64Zero, locked |-> FALSE, panicked |-> FALSE]

Panicked == [held |-> U64Zero, available |-> U64Zero, locked |-> FALSE, panicked |-> TRUE]

\* available += amount
AddAvailable(acc, amount, checks) ==
    LET r == overflowing_add(acc.available, amount)
    IN  IF checks /\ r.overflow THEN Panicked ELSE [acc EXCEPT !.available = r.value]

\* available -= amount
SubAvailable(acc, amount, checks) ==
    LET r == overflowing_sub(acc.available, amount)
    IN  IF checks /\ r.overflow THEN Panicked ELSE [acc EXCEPT !.available = r.value]

\* held += amount
AddHeld(acc, amount, checks) ==
    LET r == overflowing_add(acc.held, amount)
    IN  IF checks /\ r.overflow THEN Panicked ELSE [acc EXCEPT !.held = r.value]

\* held -= amount
SubHeld(acc, amount, checks) ==
    LET r == overflowing_sub(acc.held, amount)
    IN  IF checks /\ r.overflow THEN Panicked ELSE [acc EXCEPT !.held = r.value]

\* two assignments in sequence: the second is not reached after a panic
Then(acc, next) == IF acc.panicked THEN Panicked ELSE next

\* TransactionType::Chargeback => {}
ChargebackArm(acc, account, tx, checks) == acc

\* TransactionType::Deposit { amount }
DepositArm(acc, account, tx, checks) == AddAvailable(acc, tx.tx_type.amount, checks)

\* a Dispute arm that leaves the account alone while funds are held
DisputeArm_UnlessHeld(acc, account, tx, checks) ==
    LET found == get_disputed_transaction(account, tx.transaction_id)
    IN  IF acc.held # U64Zero
        THEN acc
        ELSE IF found.some /\ found.value.tx_type.tag = "Withdrawal"
        THEN LET h == SubHeld(acc, found.value.tx_type.amount, checks)
             IN  Then(h, AddAvailable(h, found.value.tx_type.amount, checks))
        ELSE IF found.some /\ found.value.tx_type.tag = "Deposit"
        THEN LET h == AddHeld(acc, found.value.tx_type.amount, checks)
             IN  Then(h, SubAvailable(h, found.value.tx_type.amount, checks))
        ELSE acc

\* TransactionType::Dispute
DisputeArm(acc, account, tx, checks) ==
    LET found == get_disputed_transaction(account, tx.transaction_id)
    IN  IF found.some /\ found.value.tx_type.tag = "Withdrawal"
        THEN LET h == SubHeld(acc, found.value.tx_type.amount, checks)
             IN  Then(h, AddAvailable(h, found.value.tx_type.amount, checks))
        ELSE IF found.some /\ found.value.tx_type.tag = "Deposit"
        THEN LET h == AddHeld(acc, found.value.tx_type.amount, checks)
             IN  Then(h, SubAvailable(h, found.value.tx_type.amount, checks))
        ELSE acc

\* TransactionType::Resolve
ResolveArm(acc, account, tx, checks) ==
    LET found == get_disputed_transaction(account, tx.transaction_id)
    IN  IF found.some /\ found.value.tx_type.tag = "Withdrawal"
        THEN LET h == AddHeld(acc, found.value.tx_type.amount, checks)
             IN  Then(h, SubAvailable(h, found.value.tx_type.amount, checks))
        ELSE IF found.some /\ found.value.tx_type.tag = "Deposit"
        THEN LET h == SubHeld(acc, found.value.tx_type.amount, checks)
             IN  Then(h, AddAvailable(h, found.value.tx_type.amount, checks))
        ELSE acc

\* a Withdrawal arm that wants more than the amount to be available
WithdrawalArm_StrictlyLess(acc, account, tx, checks) ==
    IF U64Lt(tx.tx_type.amount, acc.available)
    THEN SubAvailable(acc, tx.tx_type.amount, checks)
    ELSE acc

\* TransactionType::Withdrawal { amount }
WithdrawalArm(acc, account, tx, checks) ==
    IF U64Le(tx.tx_type.amount, acc.available)
    THEN SubAvailable(acc, tx.tx_type.amount, checks)
    ELSE acc

\* one iteration of `for tx in &self.transactions`: the match on tx.tx_type
Step(acc, account, tx, checks) ==
    IF acc.panicked THEN Panicked
    ELSE CASE tx.tx_type.tag = "Chargeback" -> ChargebackArm(acc, account, tx, checks)
           [] tx.tx_type.tag = "Deposit"    -> DepositArm(acc, account, tx, checks)
           [] tx.tx_type.tag = "Dispute"    -> DisputeArm(acc, account, tx, checks)
           [] tx.tx_type.tag = "Resolve"    -> ResolveArm(acc, account, tx, checks)
           [] tx.tx_type.tag = "Withdrawal" -> WithdrawalArm(acc, account, tx, checks)

\* the running values after the first n iterations of the loop
RECURSIVE Replay(_, _, _)
Replay(account, n, checks) ==
    IF n = 0 THEN Start
    ELSE Step(Replay(account, n - 1, checks), account, account.transactions[n], checks)

\* the ClosingBalance built from the running values (total: available + held),
\* unless the replay or this last addition panicked
Balance(acc, checks) ==
    LET t == overflowing_add(acc.available, acc.held)
    IN  IF acc.panicked \/ (checks /\ t.overflow)
        THEN [panicked |-> TRUE]
        ELSE [panicked |-> FALSE,
              value |-> [held |-> acc.held, available |-> acc.available,
                         total |-> t.value, locked |-> acc.locked]]

\* Account::closing_balance
closing_balance(account, checks) ==
    Balance(Replay(account, Len(account.transactions), checks), checks)

(***************************************************************************)
(* Accounts.                                                               *)
(***************************************************************************)
\* Accounts::default
NoAccounts == <<>>

\* an add_transaction that pushes onto every account it knows
Accounts_add_transaction_EveryAccount(accts, tx) ==
    IF tx.client_id \in DOMAIN accts
    THEN [c \in DOMAIN accts |-> Account_add_transaction(accts[c], tx)]
    ELSE [c \in DOMAIN accts \cup {tx.client_id} |->
            IF c = tx.client_id
            THEN [id |-> tx.client_id, transactions |-> <<tx>>]
            ELSE accts[c]]

\* Accounts::add_transaction: push onto the client's account, or insert a
\* new account holding just this transaction
Accounts_add_transaction(accts, tx) ==
    IF tx.client_id \in DOMAIN accts
    THEN [accts EXCEPT ![tx.client_id] = Account_add_transaction(@, tx)]
    ELSE [c \in DOMAIN accts \cup {tx.client_id} |->
            IF c = tx.client_id
            THEN [id |-> tx.client_id, transactions |-> <<tx>>]
            ELSE accts[c]]

\* the orders in which the map's iterator may visit the accounts
IterationOrders(accts) ==
    {o \in [1..Cardinality(DOMAIN accts) -> DOMAIN accts] :
        \A i, j \in DOMAIN o : o[i] = o[j] => i = j}

\* a generate_closing_balances that passes over the accounts holding a single
\* transaction
generate_closing_balances_SkipSingle(accts, order, checks) ==
    LET Busy(c) == Len(accts[c].transactions) > 1
        kept == SelectSeq(order, Busy)
    IN  IF \E c \in DOMAIN accts : closing_balance(accts[c], checks).panicked
        THEN [status |-> "panicked"]
        ELSE [status |-> "returned",
              balances |-> [i \in DOMAIN kept |->
                              closing_balance(accts[kept[i]], checks).value]]

\* Accounts::generate_closing_balances, visiting the accounts in `order`:
\* a panic in any account's replay aborts the whole call
generate_closing_balances(accts, order, checks) ==
    IF \E c \in DOMAIN accts : closing_balance(accts[c], checks).panicked
    THEN [status |-> "panicked"]
    ELSE [status |-> "returned",
          balances |-> [i \in DOMAIN order |->
                          closing_balance(accts[order[i]], checks).value]]

(***************************************************************************)
(* The program, as main drives it: the input stream is recorded one        *)
(* transaction at a time, and when it ends the closing balances are        *)
(* generated.  generate_closing_balances takes &self, so calling it        *)
(* earlier as well (as the tests do) changes nothing that a later call     *)
(* sees.                                                                   *)
(***************************************************************************)
Init ==
    /\ accounts = NoAccounts
    /\ recorded = <<>>
    /\ overflow_checks \in BOOLEAN
    /\ closing_balances = [status |-> "none"]

\* main's loop body: accounts.add_transaction(tx)
AddTransaction(tx) ==
    /\ closing_balances.status = "none"
    /\ accounts' = Accounts_add_transaction(accounts, tx)
    /\ recorded' = Append(recorded, tx)
    /\ UNCHANGED <<overflow_checks, closing_balances>>

\* a generation of the closing balances that empties the histories it read
GenerateClosingBalances_Draining ==
    /\ closing_balances.status # "panicked"
    /\ \E order \in IterationOrders(accounts) :
          closing_balances' = generate_closing_balances(accounts, order, overflow_checks)
    /\ accounts' = [c \in DOMAIN accounts |-> [accounts[c] EXCEPT !.transactions = <<>>]]
    /\ UNCHANGED <<recorded, overflow_checks>>

\* let closing_balances = accounts.generate_closing_balances()
GenerateClosingBalances ==
    /\ closing_balances.status # "panicked"
    /\ \E order \in IterationOrders(accounts) :
          closing_balances' = generate_closing_balances(accounts, order, overflow_checks)
    /\ UNCHANGED <<accounts, recorded, overflow_checks>>

\* the streams of the model: of two clients whose amounts are all 1, the
\* second client using one transaction id that the first uses too; of one
\* client; and of one client with one more record
LedgerStream ==
    {tx \in Transaction :
        /\ tx.tx_type.tag \in {"Deposit", "Withdrawal"} => tx.tx_type.amount = U64One
        /\ tx.client_id = 2 => tx.transaction_id = 1}

AccountStream == {tx \in Transaction : tx.client_id = 1}

\* the ledger fed by the streams of two clients
Next ==
    \/ \E tx \in LedgerStream : Len(recorded) < MaxTx /\ AddTransaction(tx)
    \/ GenerateClosingBalances

Spec == Init /\ [][Next]_vars

\* the ledger fed by the stream of one client
NextAccount ==
    \/ \E tx \in AccountStream : Len(recorded) < MaxTx /\ AddTransaction(tx)
    \/ GenerateClosingBalances

SpecAccount == Init /\ [][NextAccount]_vars

\* the same with a longer stream
NextLongAccount ==
    \/ \E tx \in AccountStream : Len(recorded) < MaxLongHistory /\ AddTransaction(tx)
    \/ GenerateClosingBalances

SpecLongAccount == Init /\ [][NextLongAccount]_vars

\* the longer stream of one client whose amounts are all 1
UnitStream == AccountStream \cap LedgerStream

NextUnitAccount ==
    \/ \E tx \in UnitStream : Len(recorded) < MaxLongHistory /\ AddTransaction(tx)
    \/ GenerateClosingBalances

SpecUnitAccount == Init /\ [][NextUnitAccount]_vars

(***************************************************************************)
(* What the claims speak of: the accounts of the ledger, the records of    *)
(* an account, and the running values of its replay before and after the   *)
(* n-th record, in the build the program runs in.                          *)
(***************************************************************************)
Known == DOMAIN accounts

Positions(c) == 1..Len(accounts[c].transactions)

Tx(c, n) == accounts[c].transactions[n]

Tag(c, n) == Tx(c, n).tx_type.tag

Amount(c, n) == Tx(c, n).tx_type.amount

Before(c, n) == Replay(accounts[c], n - 1, overflow_checks)

After(c, n) == Replay(accounts[c], n, overflow_checks)

\* the record the lookup gives for the id of the n-th record
Referenced(c, n) == get_disputed_transaction(accounts[c], Tx(c, n).transaction_id)

RefersTo(c, n, tag) == Referenced(c, n).some /\ Referenced(c, n).value.tx_type.tag = tag

\* available + held as an exact integer: its low 64 bits and its bit 64
ExactTotal(acc) == overflowing_add(acc.available, acc.held)

\* y = x + a and y = x - a as exact integers
ExactlyPlus(y, x, a) == ~overflowing_add(x, a).overflow /\ y = overflowing_add(x, a).value

ExactlyMinus(y, x, a) == ~overflowing_sub(x, a).overflow /\ y = overflowing_sub(x, a).value

\* total(y) = total(x) - a as exact integers
TotalExactlyMinus(y, x, a) ==
    LET r == overflowing_add(ExactTotal(y).value, a)
    IN  /\ r.value = ExactTotal(x).value
        /\ (ExactTotal(y).overflow \/ r.overflow) = ExactTotal(x).overflow
        /\ ~(ExactTotal(y).overflow /\ r.overflow)

\* the first n records replay with every result in 0..2^64-1
InRange(c, n) == ~Replay(accounts[c], n, TRUE).panicked

DisputeFamily == {"Dispute", "Resolve", "Chargeback"}

Funding == {"Deposit", "Withdrawal"}

Returned == closing_balances.status = "returned"

(***************************************************************************)
(* C1.  After every prefix of every client's history the balance has       *)
(* total = available + held as exact integers, and so has every            *)
(* ClosingBalance that generate_closing_balances returns.                  *)
(***************************************************************************)
TotalIsExact(b) == ~ExactTotal(b).overflow /\ b.total = ExactTotal(b).value

C1_TotalIsExactSum ==
    Returned =>
        /\ \A i \in DOMAIN closing_balances.balances :
              TotalIsExact(closing_balances.balances[i])
        /\ \A c \in Known : \A n \in 0..Len(accounts[c].transactions) :
              LET b == Balance(Replay(accounts[c], n, overflow_checks), overflow_checks)
              IN  ~b.panicked => TotalIsExact(b.value)

(***************************************************************************)
(* C2.  No step of a replay takes available below zero: whenever a step    *)
(* subtracts an amount from available, the amount is at most the current   *)
(* available.                                                              *)
(***************************************************************************)
C2_AvailableNeverOverdrawn ==
    \A c \in Known : \A n \in Positions(c) :
        ~Before(c, n).panicked =>
            /\ (Tag(c, n) = "Withdrawal" /\ After(c, n) # Before(c, n))
                  => U64Le(Amount(c, n), Before(c, n).available)
            /\ (Tag(c, n) = "Dispute" /\ RefersTo(c, n, "Deposit"))
                  => U64Le(Referenced(c, n).value.tx_type.amount, Before(c, n).available)
            /\ (Tag(c, n) = "Resolve" /\ RefersTo(c, n, "Withdrawal"))
                  => U64Le(Referenced(c, n).value.tx_type.amount, Before(c, n).available)

(***************************************************************************)
(* C3.  A Chargeback of a Deposit of X that was disputed before takes X    *)
(* off held, leaves available alone and locks the account.                 *)
(***************************************************************************)
C3_ChargebackReversesAndLocks ==
    \A c \in Known : \A d, i, n \in Positions(c) :
        ( /\ d < i /\ i < n
          /\ Tag(c, d) = "Deposit" /\ Tag(c, i) = "Dispute" /\ Tag(c, n) = "Chargeback"
          /\ Tx(c, i).transaction_id = Tx(c, d).transaction_id
          /\ Tx(c, n).transaction_id = Tx(c, d).transaction_id
          /\ Referenced(c, n) = Some(Tx(c, d))
          /\ ~After(c, n).panicked )
        => /\ ExactlyMinus(After(c, n).held, Before(c, n).held, Amount(c, d))
           /\ After(c, n).available = Before(c, n).available
           /\ After(c, n).locked

(***************************************************************************)
(* C4.  A Withdrawal of A when available is V: available becomes V - A if  *)
(* A <= V and stays V otherwise; held and locked are unchanged, the step   *)
(* raises no error, and the total changes by -A or by 0.                   *)
(***************************************************************************)
C4_WithdrawalAllOrNothing ==
    \A c \in Known : \A n \in Positions(c) :
        (Tag(c, n) = "Withdrawal" /\ ~Before(c, n).panicked) =>
            LET A == Amount(c, n)
                V == Before(c, n).available
            IN  /\ ~After(c, n).panicked
                /\ After(c, n).held = Before(c, n).held
                /\ After(c, n).locked = Before(c, n).locked
                /\ (V = A \/ U64Lt(A, V)) =>
                        /\ ExactlyMinus(After(c, n).available, V, A)
                        /\ TotalExactlyMinus(After(c, n), Before(c, n), A)
                /\ U64Lt(V, A) =>
                        /\ After(c, n).available = V
                        /\ ExactTotal(After(c, n)) = ExactTotal(Before(c, n))

\* a history with a withdrawal that was accepted and one that was rejected,
\* whose closing balance has been produced
C4_Witness ==
    /\ Returned
    /\ \E c \in Known : \E n, m \in Positions(c) :
          /\ Tag(c, n) = "Withdrawal" /\ Tag(c, m) = "Withdrawal"
          /\ InRange(c, Len(accounts[c].transactions))
          /\ Amount(c, n) = Before(c, n).available
          /\ After(c, n).available = U64Zero
          /\ U64Lt(Before(c, m).available, Amount(c, m))
          /\ After(c, m) = Before(c, m)

(***************************************************************************)
(* C5.  A Dispute whose id is that of an earlier Deposit of X (the record   *)
(* the lookup gives), met after a history whose results were all in range, *)
(* moves X from available to held: held grows by X, available shrinks by   *)
(* X, total and locked stay.                                               *)
(***************************************************************************)
C5_DisputeMovesDeposit ==
    \A c \in Known : \A m, n \in Positions(c) :
        ( /\ m < n
          /\ Tag(c, m) = "Deposit" /\ Tag(c, n) = "Dispute"
          /\ Tx(c, n).transaction_id = Tx(c, m).transaction_id
          /\ Referenced(c, n) = Some(Tx(c, m))
          /\ InRange(c, n - 1)
          /\ ~After(c, n).panicked )
        => /\ ExactlyPlus(After(c, n).held, Before(c, n).held, Amount(c, m))
           /\ ExactlyMinus(After(c, n).available, Before(c, n).available, Amount(c, m))
           /\ After(c, n).locked = Before(c, n).locked
           /\ ExactTotal(After(c, n)) = ExactTotal(Before(c, n))

(***************************************************************************)
(* C6.  A Deposit of X disputed at i, after a history whose results were   *)
(* all in range, and resolved at j, with only Deposits and Withdrawals in  *)
(* between: the Resolve gives held its value from before the Dispute and   *)
(* adds X to available, and neither the Dispute nor the Resolve changes    *)
(* the total.                                                              *)
(***************************************************************************)
C6_DisputeResolveRoundTrip ==
    \A c \in Known : \A d, i, j \in Positions(c) :
        ( /\ d < i /\ i < j
          /\ Tag(c, d) = "Deposit" /\ Tag(c, i) = "Dispute" /\ Tag(c, j) = "Resolve"
          /\ Tx(c, i).transaction_id = Tx(c, d).transaction_id
          /\ Tx(c, j).transaction_id = Tx(c, d).transaction_id
          /\ Referenced(c, i) = Some(Tx(c, d))
          /\ InRange(c, i - 1)
          /\ \A k \in (i + 1)..(j - 1) : Tag(c, k) \in Funding
          /\ ~After(c, j).panicked )
        => /\ After(c, j).held = Before(c, i).held
           /\ ExactlyPlus(After(c, j).available, Before(c, j).available, Amount(c, d))
           /\ ExactTotal(After(c, i)) = ExactTotal(Before(c, i))
           /\ ExactTotal(After(c, j)) = ExactTotal(Before(c, j))

(***************************************************************************)
(* C7.  A Dispute, Resolve or Chargeback with no Deposit or Withdrawal of  *)
(* that id earlier in the same client's history changes nothing and        *)
(* raises no error.                                                        *)
(***************************************************************************)
NoEarlierFunding(c, n) ==
    \A m \in 1..(n - 1) :
        Tx(c, m).transaction_id = Tx(c, n).transaction_id => Tag(c, m) \notin Funding

C7_UnmatchedReferenceIsNoOp ==
    \A c \in Known : \A n \in Positions(c) :
        (Tag(c, n) \in DisputeFamily /\ NoEarlierFunding(c, n) /\ ~Before(c, n).panicked)
            => After(c, n) = Before(c, n)

\* a Dispute or Resolve of an id whose Deposit arrives only later, met with
\* funds in the account
C7_Witness ==
    /\ Returned
    /\ \E c \in Known : \E n, m \in Positions(c) :
          /\ n < m
          /\ Tag(c, n) \in {"Dispute", "Resolve"} /\ NoEarlierFunding(c, n)
          /\ Tag(c, m) = "Deposit"
          /\ Tx(c, m).transaction_id = Tx(c, n).transaction_id
          /\ Before(c, n).available # U64Zero
          /\ InRange(c, Len(accounts[c].transactions))

(***************************************************************************)
(* C8.  Clients do not influence each other: whatever the interleaving of  *)
(* the recorded stream, a client's closing balance is the one of a ledger  *)
(* into which only that client's records were put, in their order.         *)
(***************************************************************************)
RECURSIVE Only(_, _)
Only(stream, c) ==
    IF stream = <<>> THEN <<>>
    ELSE LET rest == Only(SubSeq(stream, 1, Len(stream) - 1), c)
             last == stream[Len(stream)]
         IN  IF last.client_id = c THEN Append(rest, last) ELSE rest

RECURSIVE RecordAll(_)
RecordAll(stream) ==
    IF stream = <<>> THEN NoAccounts
    ELSE Accounts_add_transaction(RecordAll(SubSeq(stream, 1, Len(stream) - 1)),
                                  stream[Len(stream)])

Alone(c) == RecordAll(Only(recorded, c))[c]

Recorders == {recorded[i].client_id : i \in DOMAIN recorded}

C8_ClientsAreIsolated ==
    /\ Known = Recorders
    /\ \A c \in Recorders :
          closing_balance(accounts[c], overflow_checks)
              = closing_balance(Alone(c), overflow_checks)
    /\ Returned =>
          \E order \in IterationOrders(accounts) :
              \A i \in DOMAIN order :
                  [panicked |-> FALSE, value |-> closing_balances.balances[i]]
                      = closing_balance(Alone(order[i]), overflow_checks)

\* two clients whose streams interleave and use the same transaction id,
\* one of them disputing its own deposit
C8_Witness ==
    /\ Returned
    /\ Len(closing_balances.balances) = 2
    /\ \E a, b \in Known : \E n, m \in Positions(a) : \E k \in Positions(b) :
          /\ a # b /\ n < m
          /\ Tag(a, n) = "Deposit" /\ Tag(a, m) = "Dispute" /\ Tag(b, k) \in Funding
          /\ Tx(a, m).transaction_id = Tx(a, n).transaction_id
          /\ Tx(b, k).transaction_id = Tx(a, n).transaction_id
          /\ recorded[1].client_id = b
          /\ After(a, m).held = Amount(a, n)

(***************************************************************************)
(* C9.  A Dispute or Resolve whose referenced record is a Withdrawal       *)
(* leaves available, held and locked unchanged.                            *)
(***************************************************************************)
C9_WithdrawalReferenceIsNoOp ==
    \A c \in Known : \A n \in Positions(c) :
        ( /\ Tag(c, n) \in {"Dispute", "Resolve"}
          /\ RefersTo(c, n, "Withdrawal")
          /\ ~Before(c, n).panicked )
        => After(c, n) = Before(c, n)

(***************************************************************************)
(* C10.  Arithmetic never wraps silently: when a step of a client's replay *)
(* has an exact result outside 0..2^64-1, no closing balance is produced.  *)
(***************************************************************************)
C10_OverflowIsReported ==
    Returned =>
        \A c \in Known : InRange(c, Len(accounts[c].transactions))

(***************************************************************************)
(* C11.  The collection that generate_closing_balances returns holds one   *)
(* ClosingBalance per client that appeared in a recorded transaction of    *)
(* any kind, however many transactions each client has.                    *)
(***************************************************************************)
C11_OneBalancePerClient ==
    Returned => Len(closing_balances.balances) = Cardinality(Recorders)

\* two clients, one with a single record that is not a Deposit or Withdrawal
\* and one with two records, and their two balances
C11_Witness ==
    /\ Returned
    /\ Len(closing_balances.balances) = 2
    /\ \E a, b \in Known :
          /\ a # b
          /\ Len(accounts[a].transactions) = 1 /\ Tag(a, 1) \in DisputeFamily
          /\ Len(accounts[b].transactions) = 2

(***************************************************************************)
(* C12.  For every client and transaction id the lookup gives a Deposit or *)
(* Withdrawal record with that id when the client's history holds one and  *)
(* nothing otherwise: never a Dispute, Resolve or Chargeback record.       *)
(***************************************************************************)
C12_LookupGivesFundingRecords ==
    \A c \in Known : \A id \in TxIds :
        LET found == get_disputed_transaction(accounts[c], id)
            funding == {n \in Positions(c) :
                          Tx(c, n).transaction_id = id /\ Tag(c, n) \in Funding}
        IN  IF funding = {}
            THEN ~found.some
            ELSE /\ found.some
                 /\ found.value.transaction_id = id
                 /\ found.value.tx_type.tag \in Funding

(***************************************************************************)
(* C13.  Recording is append-only: a step that records a transaction       *)
(* leaves the owning client's history as it was with the transaction       *)
(* appended at the end (a one-element history for a new client), leaves    *)
(* every other client's history as it was, and removes no account.         *)
(***************************************************************************)
RecordedOne == recorded' # recorded

Appended ==
    LET tx == recorded'[Len(recorded')]
        c == tx.client_id
    IN  /\ DOMAIN accounts' = DOMAIN accounts \cup {c}
        /\ accounts'[c].id = c
        /\ accounts'[c].transactions =
               IF c \in DOMAIN accounts THEN Append(accounts[c].transactions, tx)
                                        ELSE <<tx>>
        /\ \A d \in DOMAIN accounts : d # c => accounts'[d] = accounts[d]

C13_RecordIsAppendOnly == [][RecordedOne => Appended]_vars

\* two clients recorded in turn, the first of them twice with different
\* records
C13_Witness ==
    /\ Len(recorded) = 3
    /\ recorded[1].client_id = recorded[3].client_id
    /\ recorded[1].client_id # recorded[2].client_id
    /\ recorded[1] # recorded[3]
    /\ accounts[recorded[1].client_id].transactions = <<recorded[1], recorded[3]>>
    /\ accounts[recorded[2].client_id].transactions = <<recorded[2]>>

(***************************************************************************)
(* C14.  A Deposit of A, met after a history whose results were all in     *)
(* range, adds exactly A to available and leaves held and locked alone;    *)
(* a history of Deposits and Withdrawals only has held = 0 throughout.     *)
(***************************************************************************)
C14_DepositAddsExactly ==
    \A c \in Known : \A n \in Positions(c) :
        /\ (Tag(c, n) = "Deposit" /\ InRange(c, n - 1) /\ ~After(c, n).panicked)
              => /\ ExactlyPlus(After(c, n).available, Before(c, n).available, Amount(c, n))
                 /\ After(c, n).held = Before(c, n).held
                 /\ After(c, n).locked = Before(c, n).locked
        /\ ((\A m \in 1..n : Tag(c, m) \in Funding) /\ ~After(c, n).panicked)
              => After(c, n).held = U64Zero

(***************************************************************************)
(* C15.  The replay keeps no record of what is disputed: a Dispute or      *)
(* Resolve for which the lookup gives a Deposit of X does held += X;       *)
(* available -= X, respectively held -= X; available += X, on the running  *)
(* u64 values whatever records preceded it (a second Dispute moves X       *)
(* again, a Resolve without a Dispute still acts), with locked unchanged;  *)
(* a result out of range aborts the replay in a build that checks          *)
(* overflow.                                                               *)
(***************************************************************************)
C15_NoDisputedState ==
    \A c \in Known : \A n \in Positions(c) :
        ( /\ Tag(c, n) \in {"Dispute", "Resolve"}
          /\ RefersTo(c, n, "Deposit")
          /\ ~Before(c, n).panicked )
        => LET b == Before(c, n)
               a == After(c, n)
               X == Referenced(c, n).value.tx_type.amount
               h == IF Tag(c, n) = "Dispute" THEN overflowing_add(b.held, X)
                                             ELSE overflowing_sub(b.held, X)
               v == IF Tag(c, n) = "Dispute" THEN overflowing_sub(b.available, X)
                                             ELSE overflowing_add(b.available, X)
           IN  IF overflow_checks /\ (h.overflow \/ v.overflow)
               THEN a.panicked
               ELSE /\ ~a.panicked
                    /\ a.held = h.value
                    /\ a.available = v.value
                    /\ a.locked = b.locked

\* a Deposit disputed twice, the second Dispute moving its amount again with
\* every result in range
C15_Witness ==
    \E c \in Known : \E d, i, n \in Positions(c) :
        /\ d < i /\ i < n
        /\ Tag(c, d) = "Deposit" /\ Tag(c, i) = "Dispute" /\ Tag(c, n) = "Dispute"
        /\ Tx(c, i).transaction_id = Tx(c, d).transaction_id
        /\ Tx(c, n).transaction_id = Tx(c, d).transaction_id
        /\ Referenced(c, n) = Some(Tx(c, d))
        /\ InRange(c, n)
        /\ Before(c, n).held # U64Zero
        /\ ExactlyPlus(After(c, n).held, Before(c, n).held, Amount(c, d))
        /\ ExactlyMinus(After(c, n).available, Before(c, n).available, Amount(c, d))

(***************************************************************************)
(* C16.  Generating the closing balances is read-only and repeatable: a    *)
(* step that records nothing changes no account and no stored              *)
(* transaction, and a call that follows a call that returned returns too,  *)
(* with the same balances client by client (the same values, up to the     *)
(* order in which the map is visited).                                     *)
(***************************************************************************)
SameBalances ==
    LET old == closing_balances.balances
        new == closing_balances'.balances
    IN  /\ Len(new) = Len(old)
        /\ \E p \in [DOMAIN old -> DOMAIN old] :
              /\ \A i, j \in DOMAIN old : p[i] = p[j] => i = j
              /\ \A i \in DOMAIN old : new[i] = old[p[i]]

GenerationIsPure ==
    /\ accounts' = accounts
    /\ Returned => (closing_balances'.status = "returned" /\ SameBalances)

C16_GenerateIsReadOnly == [][recorded' = recorded => GenerationIsPure]_vars

\* the balances of two clients with histories that give different balances,
\* one of them with funds held
C16_Witness ==
    /\ Returned
    /\ Len(closing_balances.balances) = 2
    /\ closing_balances.balances[1] # closing_balances.balances[2]
    /\ closing_balances.balances[1].held # U64Zero
    /\ \A c \in Known : InRange(c, Len(accounts[c].transactions))

(***************************************************************************)
(* C17.  Replay agrees with incremental processing: the running values the *)
(* replay of a stored history has reached after its first n records are    *)
(* those of the closing balance of the first n records alone, although     *)
(* the lookup searches the whole stored history.                           *)
(***************************************************************************)
Prefix(account, n) == [account EXCEPT !.transactions = SubSeq(@, 1, n)]

C17_ReplayIsIncremental ==
    \A c \in Known : \A n \in 0..Len(accounts[c].transactions) :
        /\ Replay(accounts[c], n, overflow_checks)
              = Replay(Prefix(accounts[c], n), n, overflow_checks)
        /\ Balance(Replay(accounts[c], n, overflow_checks), overflow_checks)
              = closing_balance(Prefix(accounts[c], n), overflow_checks)

\* a Dispute, Resolve or Chargeback met with funds in the account, the first
\* record of its id, whose id a later Deposit or Withdrawal that acts bears
C17_Witness ==
    \E c \in Known : \E n, m \in Positions(c) :
        /\ n < m
        /\ Tag(c, n) \in DisputeFamily /\ Tag(c, m) \in Funding
        /\ Tx(c, m).transaction_id = Tx(c, n).transaction_id
        /\ \A k \in 1..(n - 1) : Tx(c, k).transaction_id # Tx(c, n).transaction_id
        /\ Before(c, n).available # U64Zero
        /\ InRange(c, m)
        /\ After(c, m) # Before(c, m)

(***************************************************************************)
(* C18.  When several Deposit or Withdrawal records of a client bear the   *)
(* same id, a Dispute or Resolve of that id that comes after the earliest  *)
(* of them is given that earliest record by the lookup, kind and amount.   *)
(***************************************************************************)
FundingOf(c, n) ==
    {m \in Positions(c) :
        Tx(c, m).transaction_id = Tx(c, n).transaction_id /\ Tag(c, m) \in Funding}

C18_EarliestRecordIsUsed ==
    \A c \in Known : \A n \in Positions(c) :
        ( /\ Tag(c, n) \in {"Dispute", "Resolve"}
          /\ Cardinality(FundingOf(c, n)) >= 2
          /\ \E m \in FundingOf(c, n) : m < n )
        => LET first == CHOOSE m \in FundingOf(c, n) : \A k \in FundingOf(c, n) : m <= k
           IN  Referenced(c, n) = Some(Tx(c, first))

====
